---- MODULE Spec2Model ----
(***************************************************************************)
(* Model of neutral_stability_curve.py: the transport-integral sampler,    *)
(* the hydrodynamic coefficient, the dispersion value Pe(n), the           *)
(* critical-point search and the stability-curve driver, together with the *)
(* state of the property backend handle (a cantera Solution) they mutate.  *)
(*                                                                         *)
(* Units.  Temperatures are integers in tenths of a kelvin, pressures in   *)
(* kPa, temperature ratios in thousandths; a density ratio sigma is a      *)
(* rational [num, den].  A product T0 * ratio is rounded down to the       *)
(* temperature resolution.                                                 *)
(*                                                                         *)
(* The backend is an external library.  Its state is the triple (T, P, X)  *)
(* the code reads and writes; a composition X is a mixture label together  *)
(* with the enthalpy level at which it was equilibrated (Unreacted if it   *)
(* never was).  Its property functions are fixed deterministic tables of   *)
(* the state; any backend call may raise.  The minimizer is an external    *)
(* library too: it is any deterministic procedure that evaluates Pe_fn at  *)
(* x0 first and returns one of the points it evaluated.                    *)
(***************************************************************************)
EXTENDS Integers, Sequences, FiniteSets, TLC

(* ------------------------------------------------------------------ *)
(* Program constants                                                   *)
(* ------------------------------------------------------------------ *)

n_points == 50

\* 1.001, the first sampling ratio, in thousandths
MinRatio == 1001

\* x0, and the bounds (7, 100) of the search
x0 == 14

nLo == 7

nHi == 100

\* T = 300 K, in tenths of a kelvin
T_main == 3000

\* P = 5e5 Pa, in kPa
P_main == 500

\* Pr = 0.7, in tenths
Pr_main == 7

\* E_a = 350000
E_a == 350000

(* ------------------------------------------------------------------ *)
(* Bounds of the model                                                 *)
(* ------------------------------------------------------------------ *)

\* objective evaluations one minimize call may make
MaxEvals == 2

\* calls of find_critical_Pe a caller makes in a row on one handle
MaxCalls == 2

\* length of the (phi, Le_eff) list the driver iterates over
MaxPhis == 2

(* ------------------------------------------------------------------ *)
(* The property backend                                                *)
(* ------------------------------------------------------------------ *)

Unreacted == 0

\* the composition a handle is created with: ct.Solution('gri30.yaml') takes
\* it from the mechanism file; no equivalence ratio is involved
DefaultMix == 0

Comp(mix, at) == [mix |-> mix, at |-> at]

State(T, P, X) == [T |-> T, P |-> P, X |-> X]

\* the state of a new handle: the mechanism file's temperature, pressure and
\* composition, a composition with nothing to react (its own equilibrium)
FreshState == State(3000, 101, Comp(DefaultMix, 3000))

\* gas.set_equivalence_ratio(phi, fuel, air); gas.TP = T, P
UnburnedState(phi, T, P) == State(T, P, Comp(phi, Unreacted))

\* temperature rise of the mixture on complete adiabatic reaction
HeatRelease(mix) ==
    CASE mix = 7  -> 15000
      [] mix = 10 -> 18000
      [] mix = 15 -> 16500
      [] OTHER    -> 0

\* enthalpy level of a state, as the temperature its HP equilibrium has
Enthalpy(s) == IF s.X.at = Unreacted THEN s.T + HeatRelease(s.X.mix) ELSE s.T

\* gas.equilibrate('HP'): pressure and enthalpy kept; the state becomes the
\* equilibrium of its mixture at that enthalpy.  Equilibrating an
\* equilibrium state changes nothing.
EquilibrateHP(s) == State(Enthalpy(s), s.P, Comp(s.X.mix, Enthalpy(s)))

\* gas.thermal_conductivity
ThermalConductivity(s) ==
    s.T \div 10 + (IF s.X.at = Unreacted THEN 0 ELSE 7) + s.X.mix + s.P \div 100

\* gas.density (ideal gas: proportional to P / T)
Density(s) == (s.P * 100000) \div s.T

(* ------------------------------------------------------------------ *)
(* Pure functions of the module                                        *)
(* ------------------------------------------------------------------ *)

Sigma(num, den) == [num |-> num, den |-> den]

\* a density ratio in thousandths, the unit of the sampling ratios
Milli(x) == (x.num * 1000) \div x.den

\* np.linspace(1.001, x, n_points)[i-1], in thousandths
T_ratio(x, i) ==
    IF i = n_points THEN Milli(x)
    ELSE MinRatio + ((i - 1) * (Milli(x) - MinRatio)) \div (n_points - 1)

\* T0 * T_ratio, rounded down to the temperature resolution: T0 * ratio / 1000,
\* formed from the thousands and the rest of T0 to stay within 32 bits
ScaledT(T0, ratio) == (T0 \div 1000) * ratio + ((T0 % 1000) * ratio) \div 1000

\* p/r < s/q for p, s >= 0 and r, q > 0, without forming the products
RECURSIVE LessFrac(_, _, _, _)
LessFrac(p, r, s, q) ==
    IF p \div r # s \div q THEN p \div r < s \div q
    ELSE IF s % q = 0 THEN FALSE
    ELSE IF p % r = 0 THEN TRUE
    ELSE LessFrac(q, s % q, r, p % r)

\* the coefficients of compute_omega, cleared of the denominators of sigma:
\* a * den, b * den and c * num * den
CoefA(n, sg) == (sg.num + sg.den) * n + sg.den

CoefB(n, sg) == 2 * sg.den * n * n + (4 * sg.den + 5 * sg.num) * n + 4 * sg.den

CoefC(n, sg) ==
    (sg.den - sg.num) * sg.den * n * n * n
    + 2 * sg.num * sg.den * n * n
    + (3 * (sg.num + sg.den) * sg.num - sg.den * sg.den) * n
    + 2 * sg.num * sg.den

\* b**2 - 4*a*c < 0, i.e. (b den)^2 num < 4 (a den) (c num den)
NegativeDiscriminant(n, sg) ==
    /\ CoefC(n, sg) > 0
    /\ LessFrac(CoefB(n, sg) * sg.num, 4 * CoefA(n, sg), CoefC(n, sg), CoefB(n, sg))

\* compute_omega: np.sqrt of a negative number is nan (numpy warns and goes
\* on), and the nan is returned; otherwise the + root, a function of (n, sigma)
compute_omega(n, sg) ==
    IF NegativeDiscriminant(n, sg) THEN [kind |-> "nan", n |-> n, sigma |-> sg]
    ELSE [kind |-> "real", n |-> n, sigma |-> sg]

\* compute_stability_coefficients and the last lines of compute_Pe: Omega/omega
\* is a deterministic function of its arguments, nan when omega is
PeValue(n, args, omega, lambda_b, gammas) ==
    [kind |-> omega.kind, n |-> n, args |-> args,
     lambda_b |-> lambda_b, gammas |-> gammas]

\* the quadratures of compute_thermal_conductivity_integral: deterministic
\* functions of x and of the sampled conductivities
Gammas(x, lambdas) == [x |-> x, lambdas |-> lambdas]

\* beta = E_a * (T_b - T) / (8.314 * T_b * T), in tenths
Beta(T_b, T) ==
    (E_a * ((T_b - T) \div 10))
        \div ((((8314 * (T_b \div 10)) \div 1000) * (T \div 10)) \div 10)

\* Le_effs[phi]
Le_eff_of(phi) ==
    CASE phi = 7  -> 1420
      [] phi = 10 -> 1250
      [] phi = 15 -> 1050

\* compute_properties: works on a handle of its own, created in the call and
\* set to the unburned mixture, then equilibrated; sigma = rho_u / rho_b in
\* tenths
compute_properties(phi, T, P) ==
    LET u == UnburnedState(phi, T, P)
        b == EquilibrateHP(u)
    IN  [sigma |-> Sigma((10 * Density(u)) \div Density(b), 10),
         beta  |-> Beta(b.T, T)]

(* ------------------------------------------------------------------ *)
(* Inputs                                                              *)
(* ------------------------------------------------------------------ *)

\* equivalence ratios of the driver's list, in tenths
Phis == {7, 10, 15}

\* the states a caller's handle may be in: an unburned mixture, a fresh
\* handle, and burned products left at a sample temperature by a call that
\* raised
HandleStates ==
    {UnburnedState(10, T_main, P_main),
     FreshState,
     State(63000, P_main, Comp(10, 21000))}

\* density ratios handed to compute_thermal_conductivity_integral: 6.0,
\* 1.001 and 1.0
XValues == {Sigma(60, 10), Sigma(1001, 1000), Sigma(10, 10)}

Args(sg, Le, beta, Pr) == [sigma |-> sg, Le_eff |-> Le, beta |-> beta, Pr |-> Pr]

\* (sigma, Le_eff, beta, Pr) handed to compute_Pe and find_critical_Pe
ArgValues == {Args(Sigma(60, 10), 1250, 1200, Pr_main),
              Args(Sigma(5, 10), 1250, 1200, Pr_main)}

\* wavenumbers handed to compute_omega and compute_Pe
NValues == {nLo, x0}

\* wavenumbers the minimizer may try after x0
TrialN == {nHi}

\* orderings of MaxPhis distinct entries of the (phi, Le_eff) list
PhiOrders ==
    {q \in [1..MaxPhis -> Phis] : \A i, j \in 1..MaxPhis : i # j => q[i] # q[j]}

(* ------------------------------------------------------------------ *)
(* State                                                               *)
(* ------------------------------------------------------------------ *)

VARIABLES
    gas,        \* the state of the shared backend handle
    pc,         \* where control is
    top,        \* the top-level entry that is running
    calls,      \* top-level calls made so far: a caller makes one call, or
                \* up to MaxCalls calls of find_critical_Pe in a row
    it,         \* frame of compute_thermal_conductivity_integral
    pe,         \* frame of compute_Pe
    fargs,      \* the (sigma, Le_eff, beta, Pr) of find_critical_Pe
    hist,       \* the minimizer's evaluations so far: <<[n, val]>>
    memo,       \* the minimizer's decisions, a function of what it has seen
    res,        \* the OptimizeResult
    ret,        \* the value last returned to the top level
    rets,       \* what find_critical_Pe returned, call by call, and the
                \* result.success it was computed from
    obs,        \* per Pe evaluation on the handle: the state at the reads
    drv,        \* the driver: its list, its index, its results
    unburned    \* the unburned state the running evaluation is about

vars == <<gas, pc, top, calls, it, pe, fargs, hist, memo, res, ret, rets, obs,
          drv, unburned>>

NoSigma == Sigma(1, 1)

NoArgs == Args(NoSigma, 0, 0, 0)

NoOmega == [kind |-> "none", n |-> 0, sigma |-> NoSigma]

NoValue == PeValue(0, NoArgs, NoOmega, 0, Gammas(NoSigma, <<>>))

NoIt == [status |-> "none", x |-> NoSigma, i |-> 0, saved |-> FreshState,
         lambdas |-> <<>>, sets |-> 0, pre |-> FreshState, post |-> FreshState]

NewIt(x, g) == [status |-> "running", x |-> x, i |-> 0, saved |-> g,
                lambdas |-> <<>>, sets |-> 0, pre |-> g, post |-> g]

NewPe(n, args) == [n |-> n, args |-> args, lambda_b |-> 0, seen |-> FreshState,
                   gammas |-> Gammas(NoSigma, <<>>), omega |-> NoOmega]

NoRes == [x |-> 0, fun |-> NoValue, success |-> TRUE]

NoRet == [fn |-> "none"]

Unknown == [known |-> FALSE, s |-> FreshState]

Known(s) == [known |-> TRUE, s |-> s]

Init ==
    /\ gas \in HandleStates
    /\ pc = "idle"
    /\ top = "none"
    /\ calls = 0
    /\ it = NoIt
    /\ pe = NewPe(0, NoArgs)
    /\ fargs = NoArgs
    /\ hist = <<>>
    /\ memo = [h \in {} |-> 0]
    /\ res = NoRes
    /\ ret = NoRet
    /\ rets = <<>>
    /\ obs = <<>>
    /\ drv = [phis |-> <<>>, k |-> 0, results |-> <<>>]
    /\ unburned = Unknown

(* ------------------------------------------------------------------ *)
(* compute_thermal_conductivity_integral                               *)
(* ------------------------------------------------------------------ *)

\* T0, P0, X0 = gas.T, gas.P, gas.X
CapturedState(g) == g

\* gas.TPX = T0 * T_ratio, P0, X0
SampleState(saved, ratio) == State(ScaledT(saved.T, ratio), saved.P, saved.X)

RestoreOmitted(saved, last) == last

RestoreLastSample(saved, last) == State(last.T, saved.P, saved.X)

\* gas.TPX = T0, P0, X0
RestoredState(saved, last) == saved

InPe == top \in {"pe", "find", "main"}

\* a direct call by a user of the module
CallIntegral(x) ==
    /\ pc = "idle" /\ calls = 0
    /\ top' = "integral"
    /\ calls' = calls + 1
    /\ it' = NewIt(x, gas)
    /\ unburned' = Unknown
    /\ pc' = "int_capture"
    /\ UNCHANGED <<gas, pe, fargs, hist, memo, res, ret, rets, obs, drv>>

IntegralCapture ==
    /\ pc = "int_capture"
    /\ it' = [it EXCEPT !.saved = CapturedState(gas), !.lambdas = <<>>, !.i = 1]
    /\ obs' = IF InPe THEN Append(obs, [read |-> pe.seen, start |-> CapturedState(gas)])
              ELSE obs
    /\ pc' = "int_loop"
    /\ UNCHANGED <<gas, top, calls, pe, fargs, hist, memo, res, ret, rets, drv,
                   unburned>>

\* one pass of the loop: the state is set to the sample, its conductivity
\* is appended
IntegralSample ==
    /\ pc = "int_loop"
    /\ gas' = SampleState(it.saved, T_ratio(it.x, it.i))
    /\ it' = [it EXCEPT !.sets = @ + 1,
                        !.lambdas = Append(@, ThermalConductivity(gas')),
                        !.i = IF it.i = n_points THEN @ ELSE @ + 1]
    /\ pc' = IF it.i = n_points THEN "int_restore" ELSE "int_loop"
    /\ UNCHANGED <<top, calls, pe, fargs, hist, memo, res, ret, rets, obs, drv,
                   unburned>>

IntegralRestore ==
    /\ pc = "int_restore"
    /\ gas' = RestoredState(it.saved, gas)
    /\ pc' = "int_quad"
    /\ UNCHANGED <<top, calls, it, pe, fargs, hist, memo, res, ret, rets, obs, drv,
                   unburned>>

\* the quadratures, and the return to the caller
IntegralReturn ==
    /\ pc = "int_quad"
    /\ it' = [it EXCEPT !.status = "returned", !.post = gas]
    /\ IF InPe
       THEN /\ pe' = [pe EXCEPT !.gammas = Gammas(it.x, it.lambdas)]
            /\ pc' = "pe_omega"
            /\ ret' = ret
       ELSE /\ ret' = [fn |-> "integral", val |-> Gammas(it.x, it.lambdas)]
            /\ pc' = "idle"
            /\ pe' = pe
    /\ UNCHANGED <<gas, top, calls, fargs, hist, memo, res, rets, obs, drv,
                   unburned>>

(* ------------------------------------------------------------------ *)
(* compute_omega, compute_Pe                                           *)
(* ------------------------------------------------------------------ *)

CallOmega(n, sg) ==
    /\ pc = "idle" /\ calls = 0
    /\ top' = "omega"
    /\ calls' = calls + 1
    /\ ret' = [fn |-> "compute_omega", val |-> compute_omega(n, sg)]
    /\ unburned' = Unknown
    /\ UNCHANGED <<gas, pc, it, pe, fargs, hist, memo, res, rets, obs, drv>>

\* the unburned state a call is about: the state of the handle it is given,
\* when that is an unreacted mixture
UnburnedOf(g) == IF g.X.at = Unreacted THEN Known(g) ELSE Unknown

CallPe(n, args) ==
    /\ pc = "idle" /\ calls = 0
    /\ top' = "pe"
    /\ calls' = calls + 1
    /\ pe' = NewPe(n, args)
    /\ unburned' = UnburnedOf(gas)
    /\ pc' = "pe_equil"
    /\ UNCHANGED <<gas, it, fargs, hist, memo, res, ret, rets, obs, drv>>

PeEquilibrate ==
    /\ pc = "pe_equil"
    /\ gas' = EquilibrateHP(gas)
    /\ pc' = "pe_lambda"
    /\ UNCHANGED <<top, calls, it, pe, fargs, hist, memo, res, ret, rets, obs, drv,
                   unburned>>

\* lambda_b = gas.thermal_conductivity, then the call of the integral with
\* x = sigma
PeReadLambdaB ==
    /\ pc = "pe_lambda"
    /\ pe' = [pe EXCEPT !.lambda_b = ThermalConductivity(gas), !.seen = gas]
    /\ it' = NewIt(pe.args.sigma, gas)
    /\ pc' = "int_capture"
    /\ UNCHANGED <<gas, top, calls, fargs, hist, memo, res, ret, rets, obs, drv,
                   unburned>>

PeOmega ==
    /\ pc = "pe_omega"
    /\ pe' = [pe EXCEPT !.omega = compute_omega(pe.n, pe.args.sigma)]
    /\ pc' = "pe_ret"
    /\ UNCHANGED <<gas, top, calls, it, fargs, hist, memo, res, ret, rets, obs, drv,
                   unburned>>

\* Q1, Q2, Q3, Omega and the return of Omega/omega
PeReturn ==
    /\ pc = "pe_ret"
    /\ LET val == PeValue(pe.n, pe.args, pe.omega, pe.lambda_b, pe.gammas) IN
       IF top = "pe"
       THEN /\ ret' = [fn |-> "compute_Pe", val |-> val]
            /\ pc' = "idle"
            /\ hist' = hist
       ELSE /\ hist' = Append(hist, [n |-> pe.n, val |-> val])
            /\ pc' = "min_decide"
            /\ ret' = ret
    /\ UNCHANGED <<gas, top, calls, it, pe, fargs, memo, res, rets, obs, drv,
                   unburned>>

\* a backend call raises in compute_Pe, before the integral is called: the
\* exception leaves every frame
PeRaise ==
    /\ pc \in {"pe_equil", "pe_lambda"}
    /\ pc' = "raised"
    /\ UNCHANGED <<gas, top, calls, it, pe, fargs, hist, memo, res, ret, rets, obs,
                   drv, unburned>>

\* a backend call raises in the integral: the assignment of a sample state
\* or of the restored state (the state stays as it was), or the conductivity
\* query of a sample (the sample state is set).  Nothing catches it
IntegralRaise ==
    /\ \/ /\ pc \in {"int_loop", "int_restore"}
          /\ gas' = gas
          /\ it' = [it EXCEPT !.status = "raised", !.post = gas]
       \/ /\ pc = "int_loop"
          /\ gas' = SampleState(it.saved, T_ratio(it.x, it.i))
          /\ it' = [it EXCEPT !.status = "raised", !.post = gas', !.sets = @ + 1]
    /\ pc' = "raised"
    /\ UNCHANGED <<top, calls, pe, fargs, hist, memo, res, ret, rets, obs, drv,
                   unburned>>

(* ------------------------------------------------------------------ *)
(* find_critical_Pe                                                    *)
(* ------------------------------------------------------------------ *)

Eval(n) == [op |-> "eval", n |-> n, idx |-> 0, success |-> TRUE]

Stop(idx, success) == [op |-> "stop", n |-> 0, idx |-> idx, success |-> success]

\* what minimize(Pe_fn, x0=14, bounds=[(7, 100)]) may do next: it starts by
\* evaluating Pe_fn at x0; after that it evaluates at another point of
\* [7, 100] or ends, with one of the points it evaluated as result.x, that
\* point's value as result.fun, and result.success true or false
Decisions(h) ==
    IF h = <<>> THEN {Eval(x0)}
    ELSE {Eval(n) : n \in IF Len(h) < MaxEvals THEN TrialN ELSE {}}
         \cup {Stop(i, b) : i \in 1..Len(h), b \in BOOLEAN}

\* return result.fun, result.x[0]
FindReturnValue(r) == [fn |-> "find_critical_Pe", fun |-> r.fun, x |-> r.x]

CallFind(args) ==
    /\ pc = "idle" /\ calls < MaxCalls /\ (calls = 0 \/ top = "find")
    /\ top' = "find"
    /\ calls' = calls + 1
    /\ fargs' = args
    /\ hist' = <<>>
    /\ unburned' = UnburnedOf(gas)
    /\ pc' = "min_decide"
    /\ UNCHANGED <<gas, it, pe, memo, res, ret, rets, obs, drv>>

\* one step of the minimizer.  The minimizer is deterministic: having seen
\* the same evaluations it decides the same
MinimizeStep ==
    /\ pc = "min_decide"
    /\ \E d \in Decisions(hist) :
         /\ hist \in DOMAIN memo => d = memo[hist]
         /\ memo' = IF hist \in DOMAIN memo THEN memo ELSE (hist :> d) @@ memo
         /\ IF d.op = "eval"
            THEN /\ pe' = NewPe(d.n, fargs)
                 /\ pc' = "pe_equil"
                 /\ res' = res
            ELSE /\ res' = [x |-> hist[d.idx].n, fun |-> hist[d.idx].val,
                            success |-> d.success]
                 /\ pc' = "find_ret"
                 /\ pe' = pe
    /\ UNCHANGED <<gas, top, calls, it, fargs, hist, ret, rets, obs, drv, unburned>>

FindReturn ==
    /\ pc = "find_ret"
    /\ ret' = FindReturnValue(res)
    /\ rets' = Append(rets, [args |-> fargs, ret |-> FindReturnValue(res),
                             success |-> res.success])
    /\ pc' = IF top = "find" THEN "idle" ELSE "main_append"
    /\ UNCHANGED <<gas, top, calls, it, pe, fargs, hist, memo, res, obs, drv,
                   unburned>>

(* ------------------------------------------------------------------ *)
(* The driver (__main__): the loop over (phi, Le_eff)                   *)
(* ------------------------------------------------------------------ *)

\* the constants, the list, and gas = ct.Solution('gri30.yaml')
RunMain ==
    /\ pc = "idle" /\ calls = 0
    /\ \E order \in PhiOrders :
         drv' = [phis |-> order, k |-> 1, results |-> <<>>]
    /\ top' = "main"
    /\ calls' = calls + 1
    /\ gas' = FreshState
    /\ pc' = "main_iter"
    /\ UNCHANGED <<it, pe, fargs, hist, memo, res, ret, rets, obs, unburned>>

\* sigma, beta = compute_properties(phi, T, P), and the call of
\* find_critical_Pe(sigma, Le_eff, beta, Pr, gas)
MainIter ==
    /\ pc = "main_iter" /\ drv.k <= Len(drv.phis)
    /\ LET phi == drv.phis[drv.k]
           sb  == compute_properties(phi, T_main, P_main)
       IN  /\ fargs' = Args(sb.sigma, Le_eff_of(phi), sb.beta, Pr_main)
           /\ unburned' = Known(UnburnedState(phi, T_main, P_main))
    /\ hist' = <<>>
    /\ pc' = "min_decide"
    /\ UNCHANGED <<gas, top, calls, it, pe, memo, res, ret, rets, obs, drv>>

\* results.append((phi, Pe_crit, n_crit)); print(Pe_crit)
MainAppend ==
    /\ pc = "main_append"
    /\ drv' = [drv EXCEPT
                 !.results = Append(@, [phi |-> drv.phis[drv.k], args |-> fargs,
                                        Pe_crit |-> ret.fun, n_crit |-> ret.x]),
                 !.k = @ + 1]
    /\ pc' = "main_iter"
    /\ UNCHANGED <<gas, top, calls, it, pe, fargs, hist, memo, res, ret, rets, obs,
                   unburned>>

\* the loop is over
MainDone ==
    /\ pc = "main_iter" /\ drv.k > Len(drv.phis)
    /\ pc' = "main_done"
    /\ UNCHANGED <<gas, top, calls, it, pe, fargs, hist, memo, res, ret, rets, obs,
                   drv, unburned>>

Next ==
    \/ \E x \in XValues : CallIntegral(x)
    \/ IntegralCapture
    \/ IntegralSample
    \/ IntegralRestore
    \/ IntegralReturn
    \/ \E n \in NValues, a \in ArgValues : CallOmega(n, a.sigma)
    \/ \E n \in NValues, a \in ArgValues : CallPe(n, a)
    \/ PeEquilibrate
    \/ PeReadLambdaB
    \/ PeOmega
    \/ PeReturn
    \/ PeRaise
    \/ IntegralRaise
    \/ \E a \in ArgValues : CallFind(a)
    \/ MinimizeStep
    \/ FindReturn
    \/ RunMain
    \/ MainIter
    \/ MainAppend
    \/ MainDone

Spec == Init /\ [][Next]_vars

(* ------------------------------------------------------------------ *)
(* Properties                                                          *)
(* ------------------------------------------------------------------ *)

\* x <= 1.001
AtMostMinRatio(x) == x.num * 1000 <= MinRatio * x.den

\* C1: when compute_thermal_conductivity_integral returns normally, the
\* backend's T, P and composition are what they were when the call started.
C1_StateRestoredOnReturn == it.status = "returned" => it.post = it.pre

\* a call with sigma > 1 has returned after setting all 50 sample states on
\* a handle whose last sample differed from the state it started in
C1_Witness ==
    /\ it.status = "returned" /\ ~AtMostMinRatio(it.x)
    /\ it.sets = n_points /\ Len(it.lambdas) = n_points
    /\ SampleState(it.saved, T_ratio(it.x, n_points)) # it.pre

\* C2: when a backend call raises during sampling (of a call with
\* x > 1.001), the backend state after the call has exited is the state
\* before the call.
C2_StateRestoredOnRaise ==
    (it.status = "raised" /\ ~AtMostMinRatio(it.x)) => it.post = it.pre

\* C3: a negative discriminant ends in a domain error: compute_omega returns
\* no nan, and neither compute_Pe nor find_critical_Pe returns a value
\* computed from one.
C3_NegativeDiscriminantRaises ==
    /\ ret.fn = "compute_omega" => ret.val.kind # "nan"
    /\ pe.omega.kind # "nan"
    /\ ret.fn = "compute_Pe" => ret.val.kind # "nan"
    /\ ret.fn = "find_critical_Pe" => ret.fun.kind # "nan"

\* C4: a call with x <= 1.001 is rejected before sampling: it sets no state
\* on the backend and returns no triple.
C4_SmallRatioRejected ==
    (it.status # "none" /\ AtMostMinRatio(it.x))
        => (it.sets = 0 /\ it.status # "returned")

\* C5: find_critical_Pe returns a pair only from a minimizer that converged.
C5_NonConvergenceReported == \A i \in 1..Len(rets) : rets[i].success

\* C6: every Pe(n) evaluation after the first one on a handle observes the
\* same backend state where lambda_b is read and where sampling starts, and
\* two consecutive calls of find_critical_Pe with the same arguments return
\* the same pair.
C6_Idempotent ==
    /\ \A i, j \in 2..Len(obs) : obs[i] = obs[j]
    /\ \A i \in 1..(Len(rets) - 1) :
         rets[i].args = rets[i + 1].args => rets[i].ret = rets[i + 1].ret

\* two consecutive calls with the same arguments have returned, after four
\* evaluations of Pe(n) on the handle
C6_Witness ==
    /\ Len(rets) = 2 /\ rets[1].args = rets[2].args
    /\ top = "find" /\ Len(obs) >= 4

\* C8: in every Pe(n) evaluation (with sigma > 1.001) the base state the
\* integral captures is the unburned state of the mixture: its temperature,
\* pressure and composition.
C8_SamplesFromUnburned ==
    (InPe /\ unburned.known /\ ~AtMostMinRatio(it.x)
          /\ pc \in {"int_loop", "int_restore", "int_quad"})
        => it.saved = unburned.s

\* the state is one the mixture of phi at pressure P goes through
DerivedFrom(s, phi, P) == s.X.mix = phi /\ s.P = P

\* C9: in the driver, the handle on which compute_Pe reads lambda_b and
\* samples holds a state derived from (phi, T, P) of the current iteration.
C9_HandleHoldsMixture ==
    (top = "main" /\ pc \in {"int_capture", "int_loop", "int_restore", "int_quad",
                             "pe_omega", "pe_ret"})
        => DerivedFrom(pe.seen, drv.phis[drv.k], P_main)

\* what an evaluation for sigma reads on a fresh handle
FreshBase == EquilibrateHP(FreshState)

\* per phi: its (sigma, beta), and the lambda_b and integrals an evaluation
\* reads when that phi is the first one processed on a fresh handle
FirstOnFresh ==
    [phi \in Phis |->
       LET sb == compute_properties(phi, T_main, P_main) IN
       [sigma    |-> sb.sigma,
        beta     |-> sb.beta,
        lambda_b |-> ThermalConductivity(FreshBase),
        gammas   |-> Gammas(sb.sigma,
                            [i \in 1..n_points |->
                               ThermalConductivity(
                                   SampleState(FreshBase, T_ratio(sb.sigma, i)))])]]

\* C10: whatever the order of the list and whatever ran before on the shared
\* handle, the (sigma, beta) of a phi and the objective its critical point is
\* computed from are those of that phi processed first on a fresh handle.
C10_IterationsIndependent ==
    /\ top = "main" =>
         \A i \in 1..Len(obs) : obs[i].read = FreshBase /\ obs[i].start = FreshBase
    /\ \A k \in 1..Len(drv.results) :
         LET r   == drv.results[k]
             ref == FirstOnFresh[r.phi]
         IN  /\ r.args.sigma = ref.sigma /\ r.args.beta = ref.beta
             /\ r.Pe_crit.lambda_b = ref.lambda_b
             /\ r.Pe_crit.gammas = ref.gammas

\* the driver has completed two iterations on the shared handle
C10_Witness ==
    /\ Len(drv.results) = 2 /\ drv.results[1].phi # drv.results[2].phi
    /\ Len(obs) >= 3

====
